---- MODULE Spec2Model ----
(***************************************************************************)
(* A model of the brainfuck compiler and virtual machine of src/main.rs:   *)
(* compile (token filter, peephole optimizer, jump resolution), execute    *)
(* (the dispatch loop over the tape) and the run/main glue around them.    *)
(*                                                                         *)
(* Indices into an operation sequence and into the tape are 0-based, as in *)
(* the source; At(ops, i) reads ops[i].                                    *)
(***************************************************************************)
EXTENDS Integers, Sequences, FiniteSets

\* ------------------------------------------------------------------ bounds
\* Longest source drawn exhaustively over the whole alphabet.
MaxLen == 4
\* Longest run of one repeated '+' or '-' in the run family of sources.
MaxRun == 130
\* Longest run of '+' or '-' that sets up a cell before an idiom.
MaxInit == 2
\* Number of cells of the modelled tape (30000 in the source).
TapeLen == 3
\* Characters a run is followed for; a Print beyond it is not taken.
MaxOut == 3

\* --------------------------------------------------------------- operations
\* enum Ops: every operation is a record of its variant and its payload
\* (0 for the variants that carry none).
Move(n) == [op |-> "Move", v |-> n]
Mod(n) == [op |-> "Mod", v |-> n]
LoopOpen(n) == [op |-> "LoopOpen", v |-> n]
LoopClose(n) == [op |-> "LoopClose", v |-> n]
SetCell(n) == [op |-> "SetCell", v |-> n]
SearchZeroCell(n) == [op |-> "SearchZeroCell", v |-> n]
PrintOp == [op |-> "Print", v |-> 0]
ReadOp == [op |-> "Read", v |-> 0]
EndOp == [op |-> "End", v |-> 0]
\* Option::None of the optimizer's two lookback slots and of filter_map.
None == [op |-> "None", v |-> 0]

At(ops, i) == ops[i + 1]

\* A value reduced into the range of i8, as two's-complement wrapping does.
Wrap8(x) == ((x + 128) % 256) - 128

\* `x as u8` of an i8.
AsU8(x) == x % 256

\* ------------------------------------------------------------------ compile
\* The closure of filter_map: one command character to one operation.
Token(ch) ==
  CASE ch = "<" -> Move(-1)
    [] ch = ">" -> Move(1)
    [] ch = "-" -> Mod(-1)
    [] ch = "+" -> Mod(1)
    [] ch = "." -> PrintOp
    [] ch = "," -> ReadOp
    [] ch = "[" -> LoopOpen(0)
    [] ch = "]" -> LoopClose(0)
    [] OTHER -> None

IsSome(o) == o.op # "None"

\* (mutant) the conversion that keeps a place for every character it does
\* not know.
converted_KeepsGaps(source) == [i \in 1..Len(source) |-> Token(source[i])]

converted(source) ==
  SelectSeq([i \in 1..Len(source) |-> Token(source[i])], IsSome)

\* The state of the optimizer's scan: the two lookback slots, the output so
\* far, and whether an arithmetic-overflow panic has ended the scan.
OptInit == [prepre |-> None, pre |-> None, compiled |-> <<>>, panic |-> FALSE]

\* (mutant) the merge that keeps the later step and loses the earlier.
MoveMerge_KeepsLast(s, v1, v2) == [s EXCEPT !.pre = Move(v2)]

\* The arm that merges two Moves: `v1 + v2` on isize.
MoveMerge(s, v1, v2) == [s EXCEPT !.pre = Move(v1 + v2)]

\* `v1 + v2` on i8: outside -128..127 it panics in a build with overflow
\* checks (cargo's dev and test profiles) and wraps in one without (release).
ModMerge(s, v1, v2, overflow_checks) ==
  IF (v1 + v2 < -128 \/ v1 + v2 > 127) /\ overflow_checks
    THEN [s EXCEPT !.panic = TRUE]
    ELSE [s EXCEPT !.pre = Mod(Wrap8(v1 + v2))]

\* (mutant) the fold that keeps the Mod and loses the SetCell.
SetCellFold_LosesSet(s, cur) == [s EXCEPT !.pre = Mod(cur.v)]

\* The arm of the match that folds SetCell(0) and a following Mod(v).
SetCellFold(s, cur) == [s EXCEPT !.pre = SetCell(cur.v)]

\* The default arm: flush prepre, shift pre, keep cur.
Shift(s, cur) ==
  [s EXCEPT !.compiled = IF IsSome(s.prepre) THEN Append(@, s.prepre) ELSE @,
            !.prepre = s.pre,
            !.pre = cur]

\* (mutant) the rewrite that takes the step of one character, not the merged
\* step of the body.
SearchRewrite_UnitStep(s) ==
  [s EXCEPT !.prepre = None,
            !.pre = SearchZeroCell(IF s.pre.v < 0 THEN -1 ELSE 1)]

\* The arm that rewrites LoopOpen, Move(n), LoopClose.
SearchRewrite(s) == [s EXCEPT !.prepre = None, !.pre = SearchZeroCell(s.pre.v)]

\* One iteration of `for cur in converted`: the match, first arm first.
OptStep(s, cur, overflow_checks) ==
  IF s.pre.op = "Move" /\ cur.op = "Move"
    THEN MoveMerge(s, s.pre.v, cur.v)
  ELSE IF s.pre.op = "Mod" /\ cur.op = "Mod"
    THEN ModMerge(s, s.pre.v, cur.v, overflow_checks)
  ELSE IF s.prepre.op = "LoopOpen" /\ s.pre = Mod(-1) /\ cur.op = "LoopClose"
    THEN [s EXCEPT !.prepre = None, !.pre = SetCell(0)]
  ELSE IF s.prepre.op = "LoopOpen" /\ s.pre.op = "Move" /\ cur.op = "LoopClose"
    THEN SearchRewrite(s)
  ELSE IF s.pre = SetCell(0) /\ cur.op = "Mod"
    THEN SetCellFold(s, cur)
  ELSE Shift(s, cur)

\* The loop `for cur in converted` over conv[lo..hi], left to right, from
\* scan state s; a panic ends it. (The range is split in halves only to keep
\* the evaluation shallow, and the state between the halves is bound as a
\* value so that it is computed once; the order of the iterations is the
\* loop's.)
RECURSIVE OptLoop(_, _, _, _, _)
OptLoop(conv, lo, hi, s, overflow_checks) ==
  IF lo > hi \/ s.panic THEN s
  ELSE IF lo = hi THEN OptStep(s, conv[lo], overflow_checks)
  ELSE LET mid == (lo + hi) \div 2
       IN CHOOSE t \in { OptLoop(conv, mid + 1, hi, left, overflow_checks) :
                          left \in {OptLoop(conv, lo, mid, s, overflow_checks)} } :
            TRUE

\* The two pushes after the loop.
OptFlush(s) ==
  LET a == IF IsSome(s.prepre) THEN Append(s.compiled, s.prepre) ELSE s.compiled
  IN IF IsSome(s.pre) THEN Append(a, s.pre) ELSE a

\* The result of compile: Ok(ops), Err(msg), or a panic that unwinds out.
Ok(ops) == [kind |-> "Ok", ops |-> ops, msg |-> ""]
Err(msg) == [kind |-> "Err", ops |-> <<>>, msg |-> msg]
Panic(msg) == [kind |-> "Panic", ops |-> <<>>, msg |-> msg]

\* The state of the jump-resolution scan: the sequence being patched, the
\* stack of open positions (top last), and the error that has ended it.
ResolveInit(compiled) == [compiled |-> compiled, stack |-> <<>>, err |-> ""]

\* (mutant) the scan that takes the oldest open position, not the newest.
ResolveStep_Fifo(r, i) ==
  IF At(r.compiled, i).op = "LoopOpen"
    THEN [r EXCEPT !.stack = Append(@, i)]
  ELSE IF At(r.compiled, i).op = "LoopClose"
    THEN IF r.stack = <<>>
           THEN [r EXCEPT !.err = "missing [ for ]"]
           ELSE LET start_pos == r.stack[1]
                IN [r EXCEPT !.stack = SubSeq(@, 2, Len(@)),
                             !.compiled[start_pos + 1] = LoopOpen(i),
                             !.compiled[i + 1] = LoopClose(start_pos)]
  ELSE r

\* One iteration of `for i in 0..compiled.len()`.
ResolveStep(r, i) ==
  IF At(r.compiled, i).op = "LoopOpen"
    THEN [r EXCEPT !.stack = Append(@, i)]
  ELSE IF At(r.compiled, i).op = "LoopClose"
    THEN IF r.stack = <<>>
           THEN [r EXCEPT !.err = "missing [ for ]"]
           ELSE LET start_pos == r.stack[Len(r.stack)]
                IN [r EXCEPT !.stack = SubSeq(@, 1, Len(@) - 1),
                             !.compiled[start_pos + 1] = LoopOpen(i),
                             !.compiled[i + 1] = LoopClose(start_pos)]
  ELSE r

\* The iterations lo..hi of the scan, in order; an error returns out of it.
RECURSIVE ResolveLoop(_, _, _)
ResolveLoop(r, lo, hi) ==
  IF lo > hi \/ r.err # "" THEN r
  ELSE IF lo = hi THEN ResolveStep(r, lo)
  ELSE LET mid == (lo + hi) \div 2
       IN CHOOSE t \in { ResolveLoop(left, mid + 1, hi) :
                          left \in {ResolveLoop(r, lo, mid)} } : TRUE

\* (mutant) the sequence returned as the scan left it, with no End pushed.
Resolve_NoEnd(compiled) ==
  LET r == ResolveLoop(ResolveInit(compiled), 0, Len(compiled) - 1)
  IN IF r.err # "" THEN Err(r.err)
     ELSE IF r.stack = <<>> THEN Ok(r.compiled)
     ELSE Err("missing ] for [")

\* (mutant) the End pushed before the scan's result is looked at, and again
\* after it.
Resolve_TwoEnds(compiled) ==
  LET r == ResolveLoop(ResolveInit(Append(compiled, EndOp)), 0, Len(compiled))
  IN IF r.err # "" THEN Err(r.err)
     ELSE IF r.stack = <<>> THEN Ok(Append(r.compiled, EndOp))
     ELSE Err("missing ] for [")

\* The scan and what follows it: the check of the stack and the push of End.
Resolve(compiled) ==
  LET r == ResolveLoop(ResolveInit(compiled), 0, Len(compiled) - 1)
  IN IF r.err # "" THEN Err(r.err)
     ELSE IF r.stack = <<>> THEN Ok(Append(r.compiled, EndOp))
     ELSE Err("missing ] for [")

compile(source, overflow_checks) ==
  LET conv == converted(source)
      s == OptLoop(conv, 1, Len(conv), OptInit, overflow_checks)
  IN IF s.panic
       THEN Panic("attempt to add with overflow")
       ELSE Resolve(OptFlush(s))

\* What a call of compile can do, over the builds of the program.
CompileOutcomes(source) == {compile(source, c) : c \in BOOLEAN}

\* The translation compile makes with its optimizer block left out: every
\* command character one operation, jumps resolved, End appended.
Naive(source) == Resolve(converted(source))

\* ------------------------------------------------------------------ execute
\* The state of one call of execute: the operations it runs, the tape, the
\* data pointer, the instruction pointer, what the channel has been given to
\* write, and whether the loop is running, has left through End ("halted") or
\* has panicked. pos is the usize read as a signed number: a negative value
\* is the wrapped pointer above every tape index.
Tape == 0..(TapeLen - 1)

VMInit(ops) ==
  [ops |-> ops, memory |-> [i \in Tape |-> 0], pos |-> 0, ip |-> 0,
   output |-> <<>>, status |-> "running"]

Idle == [VMInit(<<>>) EXCEPT !.status = "idle"]

Panicked(m) == [m EXCEPT !.status = "panicked"]

\* (mutant) an `if` in the place of the `while`: one step at most.
SearchZero_OneStep(memory, pos, step) ==
  IF pos \notin Tape THEN [kind |-> "oob", pos |-> pos]
  ELSE IF memory[pos] = 0 THEN [kind |-> "found", pos |-> pos]
  ELSE [kind |-> "found", pos |-> pos + step]

\* The while loop of SearchZeroCell from pos: the position it leaves ("found"),
\* the position whose read is out of bounds ("oob"), or no exit ("spin").
RECURSIVE SearchZero(_, _, _)
SearchZero(memory, pos, step) ==
  IF pos \notin Tape THEN [kind |-> "oob", pos |-> pos]
  ELSE IF memory[pos] = 0 THEN [kind |-> "found", pos |-> pos]
  ELSE IF step = 0 THEN [kind |-> "spin", pos |-> pos]
  ELSE SearchZero(memory, pos + step, step)

\* (mutant) the addition without the wrap.
ModCell_NoWrap(m, val) ==
  [m EXCEPT !.memory[m.pos] = @ + val, !.ip = @ + 1]

\* memory[pos] = memory[pos].wrapping_add(val)
ModCell(m, val) ==
  [m EXCEPT !.memory[m.pos] = Wrap8(@ + val), !.ip = @ + 1]

\* (mutant) a LoopOpen that skips to its LoopClose, not past it.
OpenJump_ToClose(m, end) ==
  [m EXCEPT !.ip = IF m.memory[m.pos] = 0 THEN end ELSE @ + 1]

\* The LoopOpen arm and the `ip += 1` after it.
OpenJump(m, end) ==
  [m EXCEPT !.ip = (IF m.memory[m.pos] = 0 THEN end ELSE @) + 1]

\* The LoopClose arm and the `ip += 1` after it.
CloseJump(m, start) ==
  [m EXCEPT !.ip = (IF m.memory[m.pos] # 0 THEN start ELSE @) + 1]

\* (mutant) the write of the cell as the signed number it is.
WriteCell_Signed(m) ==
  [m EXCEPT !.output = Append(@, m.memory[m.pos]), !.ip = @ + 1]

\* in_out.write(memory[pos] as u8 as char)
WriteCell(m) ==
  [m EXCEPT !.output = Append(@, AsU8(m.memory[m.pos])), !.ip = @ + 1]

\* (mutant) a store through a pointer that is taken modulo the tape length.
StoreCell_WrapsAround(m, value) ==
  [m EXCEPT !.memory[m.pos % TapeLen] = value, !.ip = @ + 1]

\* memory[pos] = value: the index is bounds-checked, and out of bounds panics.
StoreCell(m, value) ==
  IF m.pos \in Tape THEN [m EXCEPT !.memory[m.pos] = value, !.ip = @ + 1]
                    ELSE Panicked(m)

\* (mutant) a read that takes "no input" as the character zero and goes on.
ReadCell_EofZero(m) ==
  IF m.pos \in Tape THEN [m EXCEPT !.memory[m.pos] = 0, !.ip = @ + 1]
                    ELSE Panicked(m)

\* memory[pos] = in_out.read().unwrap() as i8: read returns None in every
\* channel, and the unwrap panics before anything is stored.
ReadCell(m) == Panicked(m)

\* One iteration of 'main: the match on ops[ip] and `ip += 1`. Indexing ops
\* or memory out of bounds panics, and so does the unwrap of the None every
\* channel's read returns.
dispatch(m) ==
  IF m.ip \notin 0..(Len(m.ops) - 1) THEN Panicked(m)
  ELSE LET o == At(m.ops, m.ip)
           inb == m.pos \in Tape
       IN CASE o.op = "Move" -> [m EXCEPT !.pos = @ + o.v, !.ip = @ + 1]
            [] o.op = "Mod" -> IF inb THEN ModCell(m, o.v) ELSE Panicked(m)
            [] o.op = "LoopOpen" -> IF inb THEN OpenJump(m, o.v) ELSE Panicked(m)
            [] o.op = "LoopClose" -> IF inb THEN CloseJump(m, o.v) ELSE Panicked(m)
            [] o.op = "SetCell" -> StoreCell(m, o.v)
            [] o.op = "SearchZeroCell" ->
                 LET r == SearchZero(m.memory, m.pos, o.v)
                 IN CASE r.kind = "found" -> [m EXCEPT !.pos = r.pos, !.ip = @ + 1]
                      [] r.kind = "oob" -> Panicked([m EXCEPT !.pos = r.pos])
                      [] OTHER -> m
            [] o.op = "Print" -> IF inb THEN WriteCell(m) ELSE Panicked(m)
            [] o.op = "Read" -> ReadCell(m)
            [] OTHER -> [m EXCEPT !.status = "halted"]

\* Whether the model follows m one more iteration: it is running, and not
\* about to write past the MaxOut characters a run is followed for.
Runnable(m) ==
  /\ m.status = "running"
  /\ ~ ( /\ m.ip \in 0..(Len(m.ops) - 1)
         /\ At(m.ops, m.ip).op = "Print"
         /\ Len(m.output) >= MaxOut )

\* ------------------------------------------------------------------ sources
Chars == {"<", ">", "+", "-", ".", ",", "[", "]", "x"}

Rep(c, k) == [i \in 1..k |-> c]

ShortSources == UNION {[1..n -> Chars] : n \in 0..MaxLen}

\* What stands between the two runs of a source of the run family.
Mids ==
  { <<>>, <<".">>, <<"[", "-", "]">>, <<">", "+", "<", "[", "-", "]">>,
    <<"]">>, <<"[">> }

\* A run of k copies of one of '+' and '-', for every k up to MaxRun.
PureRuns == { Rep(c, k) : c \in {"+", "-"}, k \in 0..MaxRun }

\* A run of one of the longest lengths, and a Print of the cell it leaves.
PrintedRuns ==
  { Rep(c, k) \o <<".">> : c \in {"+", "-"}, k \in (MaxRun - 3)..MaxRun }

\* The lengths of the second run of a source of the run family: the short
\* ones and the longest ones.
RunLens == (0..MaxInit) \cup ((MaxRun - 3)..MaxRun)

RunSource(c1, j, mid, c2, k) == Rep(c1, j) \o mid \o Rep(c2, k)

RunSources ==
  { RunSource(c1, j, mid, c2, k) :
      c1 \in {"+", "-"}, j \in 0..MaxInit, mid \in Mids,
      c2 \in {"+", "-"}, k \in RunLens }

\* Longer programs: loops that count, copy, scan, print and run away.
Corpus ==
  { <<"+", "[", "-", "]">>,
    <<"-", "[", "+", "]">>,
    <<"+", "[", ">", "]">>,
    <<"+", "[", "<", "]">>,
    <<"+", "[", ">", "<", "]">>,
    <<"+", "[", ".", "]">>,
    <<"+", "[", "[", "-", "]", "]">>,
    <<"+", "[", "+", "-", "]">>,
    <<"[", "-", "]", "+", "+", "+">>,
    <<"[", "-", "]", "+", "+", "+", ".">>,
    <<"-", "[", "-", "]", "+", "+", "-", ".">>,
    <<"+", "+", "[", ">", "+", "+", "<", "-", "]", ">", ".">>,
    <<"+", ">", "+", ">", "+", "[", "<", "]", ">", ".">>,
    <<"+", ">", "+", "[", ">", "]", "<", "<", ".">>,
    <<"+", "[", "-", ">", "+", "<", "]", ">", "[", "-", "]", "+", ".">>,
    <<"-", "[", ".", "x", "-", "]">>,
    <<"[", "[", ".", "]", "]", "[", ".", "]">>,
    <<"+", "[", ">", "+", "[", ".", "-", "]", "<", "-", "]">>,
    <<"+", "[", ">", "+", "<", "-", "]", ",">>,
    <<"x", "+", "x", "+", "[", "x", "-", "x", "]", "x", ".">>,
    <<"[", ".", "]", "+", "+", "[", ">", "+", "<", "-", "]", ">", ".">>,
    <<"+", "[", "-", "+", "-", "]", "[", ">", ">", "<", "]", ".">>,
    <<"+", ">", "+", "<", "[", ">", "]">> }

Sources == ShortSources \cup PureRuns \cup PrintedRuns \cup RunSources \cup Corpus

\* -------------------------------------------------------------------- state
\* source:  the text of the file run() reads
\* pc:      where main is: before compile ("start"), in execute ("exec"),
\*          back from run ("returned"), after its last println ("exit"), or
\*          unwound by a panic ("aborted")
\* result:  what compile returned
\* vm:      the state of execute on the compiled operations
\* ref:     the state of execute on the naive translation of the same source,
\*          run beside vm for comparison
\* console: the lines main and run print with println!
VARIABLES source, pc, result, vm, ref, console

vars == <<source, pc, result, vm, ref, console>>

NoResult == [kind |-> "None", ops |-> <<>>, msg |-> ""]

Init ==
  /\ source \in Sources
  /\ pc = "start"
  /\ result = NoResult
  /\ vm = Idle
  /\ ref = Idle
  /\ console = <<>>

\* run: compile returns Ok and execute is entered. The reference execution
\* starts on the naive translation.
CompileOk ==
  /\ pc = "start"
  /\ \E r \in CompileOutcomes(source) :
       /\ r.kind = "Ok"
       /\ result' = r
       /\ vm' = VMInit(r.ops)
  /\ ref' = IF Naive(source).kind = "Ok" THEN VMInit(Naive(source).ops) ELSE Idle
  /\ pc' = "exec"
  /\ UNCHANGED <<source, console>>

\* run: compile returns Err, the diagnostic is printed and run returns.
CompileErr ==
  /\ pc = "start"
  /\ \E r \in CompileOutcomes(source) :
       /\ r.kind = "Err"
       /\ result' = r
       /\ console' = Append(console, <<"Compilation error", r.msg>>)
  /\ pc' = "returned"
  /\ UNCHANGED <<source, vm, ref>>

\* run: compile panics and the panic unwinds through run and main.
CompilePanic ==
  /\ pc = "start"
  /\ \E r \in CompileOutcomes(source) :
       /\ r.kind = "Panic"
       /\ result' = r
  /\ pc' = "aborted"
  /\ UNCHANGED <<source, vm, ref, console>>

\* The reference execution moves with every iteration of vm.
RefAdvance == ref' = IF Runnable(ref) THEN dispatch(ref) ELSE ref

\* One iteration of 'main in execute.
Step ==
  /\ pc = "exec"
  /\ Runnable(vm)
  /\ vm' = dispatch(vm)
  /\ pc' = CASE vm'.status = "halted" -> "returned"
             [] vm'.status = "panicked" -> "aborted"
             [] OTHER -> "exec"
  /\ RefAdvance
  /\ UNCHANGED <<source, result, console>>

\* The variant of ops[ip], the operation execute is at.
Current(m) ==
  IF m.ip \in 0..(Len(m.ops) - 1) THEN At(m.ops, m.ip).op ELSE "None"

\* The iterations of 'main, by the arm of the match they take.
DoMove ==
  /\ Current(vm) = "Move"
  /\ Step

DoMod ==
  /\ Current(vm) = "Mod"
  /\ Step

DoLoopOpen ==
  /\ Current(vm) = "LoopOpen"
  /\ Step

DoLoopClose ==
  /\ Current(vm) = "LoopClose"
  /\ Step

DoSetCell ==
  /\ Current(vm) = "SetCell"
  /\ Step

DoSearchZeroCell ==
  /\ Current(vm) = "SearchZeroCell"
  /\ Step

DoPrint ==
  /\ Current(vm) = "Print"
  /\ Step

DoRead ==
  /\ Current(vm) = "Read"
  /\ Step

DoEnd ==
  /\ Current(vm) = "End"
  /\ Step

\* The reference execution goes on alone once vm is no longer followed and
\* main has nothing left to do.
RefStep ==
  /\ ~ (pc = "exec" /\ Runnable(vm))
  /\ pc # "returned"
  /\ Runnable(ref)
  /\ ref' = dispatch(ref)
  /\ UNCHANGED <<source, pc, result, vm, console>>

\* main: run has returned and the completion marker is printed.
Done ==
  /\ pc = "returned"
  /\ console' = Append(console, <<"Done">>)
  /\ pc' = "exit"
  /\ UNCHANGED <<source, result, vm, ref>>

Next ==
  \/ CompileOk
  \/ CompileErr
  \/ CompilePanic
  \/ DoMove
  \/ DoMod
  \/ DoLoopOpen
  \/ DoLoopClose
  \/ DoSetCell
  \/ DoSearchZeroCell
  \/ DoPrint
  \/ DoRead
  \/ DoEnd
  \/ RefStep
  \/ Done

Spec == Init /\ [][Next]_vars

\* The program is sequential code that runs on: an iteration of either
\* execution that can be taken is taken, and so is main's last statement.
FairSpec == Spec /\ WF_vars(Step) /\ WF_vars(RefStep) /\ WF_vars(Done)

\* ------------------------------------------------------------------- claims
\* The operations compile returned, when it returned Ok.
Returned == result.kind = "Ok"

Indices(ops) == 0..(Len(ops) - 1)

\* The number of characters ch among the first n of s.
Count(s, ch, n) == Cardinality({i \in 1..n : s[i] = ch})

\* No prefix of s has more ']' than '['.
NoExcessClose(s) ==
  \A n \in 0..Len(s) : Count(s, "]", n) <= Count(s, "[", n)

\* The brackets of s, in order, are balanced and properly nested.
Balanced(s) ==
  NoExcessClose(s) /\ Count(s, "[", Len(s)) = Count(s, "]", Len(s))

\* C4 (jump correctness): in every sequence compile returns, a LoopOpen at i
\* carries a j > i where a LoopClose carrying i stands, a LoopClose at j
\* carries an i where a LoopOpen carrying j stands, and no two pairs cross.
C4_JumpCorrectness ==
  Returned =>
    LET ops == result.ops
    IN /\ \A i \in Indices(ops) :
            At(ops, i).op = "LoopOpen" =>
              /\ At(ops, i).v \in Indices(ops)
              /\ At(ops, i).v > i
              /\ At(ops, At(ops, i).v) = LoopClose(i)
       /\ \A j \in Indices(ops) :
            At(ops, j).op = "LoopClose" =>
              /\ At(ops, j).v \in Indices(ops)
              /\ At(ops, At(ops, j).v) = LoopOpen(j)
       /\ \A i1, i2 \in Indices(ops) :
            ( /\ At(ops, i1).op = "LoopOpen"
              /\ At(ops, i2).op = "LoopOpen"
              /\ i1 < i2
              /\ i2 < At(ops, i1).v ) => At(ops, i2).v < At(ops, i1).v

\* A returned sequence with a loop inside a loop, and a loop after them.
C4_Witness ==
  /\ Returned
  /\ \E i1, i2, i3 \in Indices(result.ops) :
       /\ At(result.ops, i1).op = "LoopOpen"
       /\ At(result.ops, i2).op = "LoopOpen"
       /\ At(result.ops, i3).op = "LoopOpen"
       /\ i1 < i2
       /\ At(result.ops, i2).v < At(result.ops, i1).v
       /\ At(result.ops, i1).v < i3

\* C5 (End): every sequence compile returns has End as its last operation and
\* at no other index.
C5_EndLastOnly ==
  Returned =>
    /\ Len(result.ops) >= 1
    /\ \A i \in Indices(result.ops) :
         (At(result.ops, i).op = "End") <=> (i = Len(result.ops) - 1)

\* A source of comment characters only, compiled to [End].
C5_Witness ==
  /\ Returned
  /\ Len(source) > 0
  /\ result.ops = <<EndOp>>

\* C6 (no zero payload): no Move or Mod of a sequence compile returns carries
\* the payload zero.
C6_NoZeroPayload ==
  Returned =>
    \A i \in Indices(result.ops) :
      At(result.ops, i).op \in {"Move", "Mod"} => At(result.ops, i).v # 0

\* C7 (SetCell folding): a [-] loop followed by a run of '+' or '-' whose
\* merged delta is v compiles to the single operation SetCell(v) and End.
C7_SetCellFolding ==
  Returned =>
  \A c \in {"+", "-"}, k \in 0..MaxRun :
    (Len(source) = 3 + k /\ source = <<"[", "-", "]">> \o Rep(c, k)) =>
      result.ops = <<SetCell(Wrap8(IF c = "+" THEN k ELSE 0 - k)), EndOp>>

IsPrefix(a, b) == Len(a) <= Len(b) /\ SubSeq(b, 1, Len(a)) = a

Stopped(m) == m.status \in {"halted", "panicked"}

\* What the two executions have done so far does not tell them apart: neither
\* has written a character the other cannot still write, and one that has
\* stopped has written all the other has.
C1_Compatible ==
  Returned =>
    /\ ref.status # "idle"
    /\ IsPrefix(vm.output, ref.output) \/ IsPrefix(ref.output, vm.output)
    /\ Stopped(vm) => IsPrefix(ref.output, vm.output)
    /\ Stopped(ref) => IsPrefix(vm.output, ref.output)
    /\ (Stopped(vm) /\ Stopped(ref)) => vm.status = ref.status

\* The two executions have written the same characters and are both halted,
\* both panicked, or both still running.
C1_Settled ==
  Returned => (vm.output = ref.output /\ vm.status = ref.status)

\* C1 (optimizer transparency): for every source that compiles, execute on
\* the compiled sequence writes the same characters, and ends the same way
\* (End, panic, or never), as execute on the naive translation: the two never
\* become incompatible, and from some point on they agree for good.
C1_OptimizerTransparency == [] C1_Compatible /\ <>[] C1_Settled

\* Both executions have halted after writing something, and the compiled
\* sequence has a rewritten idiom where the naive one has a loop.
C1_Witness ==
  /\ Returned
  /\ vm.status = "halted"
  /\ ref.status = "halted"
  /\ Len(vm.output) > 0
  /\ vm.output = ref.output
  /\ \E i \in Indices(vm.ops) : At(vm.ops, i).op \in {"SetCell", "SearchZeroCell"}
  /\ \E i \in Indices(ref.ops) : At(ref.ops, i).op = "LoopOpen"

\* C2 (bracket balance): compile returns Ok if and only if the brackets of the
\* source, in order, are balanced and properly nested.
C2_BracketBalance ==
  pc # "start" => (Returned <=> Balanced(source))

\* C3 (error kind): compile fails with "missing [ for ]" exactly when some
\* prefix of the source has more ']' than '[', and with "missing ] for ["
\* exactly when none has and the source has more '[' than ']'; it returns no
\* operations with either.
C3_ErrorKind ==
  pc # "start" =>
    /\ (result.kind = "Err" /\ result.msg = "missing [ for ]")
         <=> ~ NoExcessClose(source)
    /\ (result.kind = "Err" /\ result.msg = "missing ] for [")
         <=> ( /\ NoExcessClose(source)
               /\ Count(source, "[", Len(source)) > Count(source, "]", Len(source)) )
    /\ result.kind = "Err" => (result.ops = <<>> /\ vm = Idle)

\* The sources of the idiom claim: a run that sets the current cell, with or
\* without a neighbour cell set to 1, then [-], then k times '+'.
IdiomMids == { <<"[", "-", "]">>, <<">", "+", "<", "[", "-", "]">> }

\* C8 (idiom rewrite equivalence): whatever the current cell held, the
\* compiled form of [-] followed by k times '+' runs to its End with the
\* current cell holding k modulo 256, the data pointer where it was and every
\* other cell as it was.
C8_IdiomEquivalence ==
  pc # "start" =>
  \A c1 \in {"+", "-"}, j \in 0..MaxInit, mid \in IdiomMids, k \in RunLens :
    (Len(source) = j + Len(mid) + k /\ source = RunSource(c1, j, mid, "+", k)) =>
      /\ pc # "aborted"
      /\ \A i \in Indices(vm.ops) :
           At(vm.ops, i).op \notin {"LoopOpen", "LoopClose", "SearchZeroCell"}
      /\ vm.status = "halted" =>
           /\ vm.pos = 0
           /\ AsU8(vm.memory[0]) = k % 256
           /\ vm.memory[1] = (IF Len(mid) > 3 THEN 1 ELSE 0)
           /\ \A p \in Tape : p > 1 => vm.memory[p] = 0

\* C9 (merging wraps): a run of k times '+' (or '-') compiles, for every k, to
\* a single Mod whose payload is the sum reduced modulo 256 into i8; compile
\* does not fail or abort on it.
C9_MergeWraps ==
  pc # "start" =>
  \A c \in {"+", "-"}, k \in 1..MaxRun :
    (Len(source) = k /\ source = Rep(c, k)) =>
      result = Ok(<<Mod(Wrap8(IF c = "+" THEN k ELSE 0 - k)), EndOp>>)

\* The value of -128..127 that is x modulo 256.
Reduce8(x) == CHOOSE r \in -128..127 : (x - r) % 256 = 0

\* An iteration of execute m to m2 on a Mod with the data pointer on the tape
\* goes on running with the current cell reduced modulo 256, and no other cell
\* or the data pointer changed.
C10_ModWraps(m, m2) ==
  ( /\ m2 # m
    /\ m.status = "running"
    /\ Current(m) = "Mod"
    /\ m.pos \in Tape ) =>
      /\ m2.status = "running"
      /\ m2.memory[m.pos] = Reduce8(m.memory[m.pos] + At(m.ops, m.ip).v)
      /\ (m.memory[m.pos] = 127 /\ At(m.ops, m.ip).v = 1) => m2.memory[m.pos] = -128
      /\ (m.memory[m.pos] = 0 /\ At(m.ops, m.ip).v = -1) => m2.memory[m.pos] = -1
      /\ \A p \in Tape \ {m.pos} : m2.memory[p] = m.memory[p]

C10_CellsInRange ==
  \A p \in Tape : vm.memory[p] \in -128..127 /\ ref.memory[p] \in -128..127

\* C10 (cell wraparound): executing Mod(n) replaces the current cell c by c + n
\* reduced modulo 256 into -128..127 and does not fault on overflow, so every
\* cell of every reachable state is in -128..127.
C10_CellWraparound ==
  /\ [][C10_ModWraps(vm, vm') /\ C10_ModWraps(ref, ref')]_vars
  /\ [] C10_CellsInRange

\* Mod(127) has been executed on a cell holding 2, and has left -127 in it.
C10_Witness ==
  /\ vm.status = "halted"
  /\ vm.ops = <<Mod(2), PrintOp, Mod(127), EndOp>>
  /\ vm.memory[0] = -127

\* An iteration of the reference execution m to m2 on a Read stops it with
\* nothing else changed.
C11_ReadStops(m, m2) ==
  (m2 # m /\ m.status = "running" /\ Current(m) = "Read") =>
    m2 = [m EXCEPT !.status = "panicked"]

\* An execution that has panicked does nothing more.
C11_StaysStopped(m, m2) == m.status = "panicked" => m2 = m

\* C11 (Read is fatal): with execute at a Read, the next step of the program
\* is the panic: the tape, the data pointer and the characters written so far
\* are as they were, main is unwound without printing, and the stopped
\* execution dispatches and writes nothing afterwards.
C11_ReadFatal ==
  /\ [][ (pc = "exec" /\ vm.status = "running" /\ Current(vm) = "Read") =>
           /\ vm' = [vm EXCEPT !.status = "panicked"]
           /\ pc' = "aborted"
           /\ console' = console ]_vars
  /\ [][ /\ C11_ReadStops(ref, ref')
         /\ C11_StaysStopped(vm, vm')
         /\ C11_StaysStopped(ref, ref') ]_vars

\* execute has panicked at a Read after a character was written and a cell
\* was set.
C11_Witness ==
  /\ pc = "aborted"
  /\ vm.status = "panicked"
  /\ Current(vm) = "Read"
  /\ Len(vm.output) > 0
  /\ vm.memory[0] # 0

\* The operations whose arm reads or writes memory[pos].
TapeOps ==
  {"Mod", "SetCell", "LoopOpen", "LoopClose", "SearchZeroCell", "Print", "Read"}

\* An iteration of the reference execution m to m2 on an operation that
\* touches the tape, with the data pointer off the tape, is the panic alone.
C12_FaultStops(m, m2) ==
  ( /\ m2 # m
    /\ m.status = "running"
    /\ Current(m) \in TapeOps
    /\ m.pos \notin Tape ) => m2 = [m EXCEPT !.status = "panicked"]

\* The tape of an execution has the cells 0..TapeLen-1 and no other.
C12_TapeOnly == DOMAIN vm.memory = Tape /\ DOMAIN ref.memory = Tape

\* C12 (out-of-range data pointer): an operation that reads or writes the tape
\* while the data pointer is below 0 or above the last cell panics: no cell is
\* changed, nothing is written, main is unwound; and no state has a cell
\* outside the tape. (The tape is TapeLen cells long here, 30000 in the source.)
C12_PointerFaultIsFatal ==
  /\ [][ ( /\ pc = "exec"
           /\ Runnable(vm)
           /\ Current(vm) \in TapeOps
           /\ vm.pos \notin Tape ) =>
           /\ vm' = [vm EXCEPT !.status = "panicked"]
           /\ pc' = "aborted"
           /\ console' = console ]_vars
  /\ [][C12_FaultStops(ref, ref')]_vars
  /\ [] C12_TapeOnly

\* execute has panicked at a Mod with the data pointer one past the last
\* cell.
C12_Witness ==
  /\ pc = "aborted"
  /\ vm.status = "panicked"
  /\ Current(vm) = "Mod"
  /\ vm.pos = TapeLen

\* The eight command characters.
Commands == {"<", ">", "+", "-", ".", ",", "[", "]"}

IsCommand(ch) == ch \in Commands

\* The source with every character that is not a command removed.
Strip(s) == SelectSeq(s, IsCommand)

\* C13 (filtering): in every build, compile gives for a source what it gives
\* for the source with the non-command characters removed: the same
\* operations, the same error or the same panic; and run gets that result.
C13_Filtering ==
  [][ pc = "start" =>
        /\ \A c \in BOOLEAN : compile(source, c) = compile(Strip(source), c)
        /\ result' \in CompileOutcomes(Strip(source)) ]_vars

\* A source with a comment character inside a run of '+' and inside a [-]
\* loop has compiled to the merged Mod and the SetCell.
C13_Witness ==
  /\ Returned
  /\ Strip(source) # source
  /\ source = <<"x", "+", "x", "+", "[", "x", "-", "x", "]", "x", ".">>
  /\ result.ops = <<Mod(2), SetCell(0), PrintOp, EndOp>>

\* The line is among those printed so far.
Printed(line) == \E i \in 1..Len(console) : console[i] = line

\* C14 (CLI outcome ordering): when main has finished after an execution that
\* reached End, "Done" is what it printed; after a compile error the first line
\* printed is the diagnostic with the error message, nothing was executed and
\* nothing written to the channel, and "Done" is not printed.
C14_OutcomeOrdering ==
  /\ (pc = "exit" /\ vm.status = "halted") => console = << <<"Done">> >>
  /\ result.kind = "Err" =>
       /\ console # <<>>
       /\ console[1] = <<"Compilation error", result.msg>>
       /\ vm = Idle
       /\ ~ Printed(<<"Done">>)

\* An iteration m to m2 on the LoopOpen at i, with the data pointer on the
\* tape: the LoopClose it carries, at j, carries i; the next operation is the
\* one at j+1 if the current cell is zero and the one at i+1 if not; nothing
\* else changes.
C15_Open(m, m2) ==
  ( /\ m2 # m
    /\ m.status = "running"
    /\ Current(m) = "LoopOpen"
    /\ m.pos \in Tape ) =>
      LET i == m.ip
          j == At(m.ops, m.ip).v
      IN /\ j \in Indices(m.ops)
         /\ At(m.ops, j) = LoopClose(i)
         /\ m2 = [m EXCEPT !.ip = IF m.memory[m.pos] = 0 THEN j + 1 ELSE i + 1]
         /\ m2.ip \in Indices(m.ops)

\* The same on the LoopClose at j, whose LoopOpen is at i: on to i+1 if the
\* current cell is not zero, and to j+1 if it is.
C15_Close(m, m2) ==
  ( /\ m2 # m
    /\ m.status = "running"
    /\ Current(m) = "LoopClose"
    /\ m.pos \in Tape ) =>
      LET j == m.ip
          i == At(m.ops, m.ip).v
      IN /\ i \in Indices(m.ops)
         /\ At(m.ops, i) = LoopOpen(j)
         /\ m2 = [m EXCEPT !.ip = IF m.memory[m.pos] # 0 THEN i + 1 ELSE j + 1]
         /\ m2.ip \in Indices(m.ops)

\* C15 (loop control flow): LoopOpen at i, paired with the LoopClose at j,
\* goes on at j+1 when the current cell is zero and at i+1 when it is not;
\* LoopClose at j goes on at i+1 when the cell is not zero and at j+1 when it
\* is; neither changes the tape, the data pointer or the output.
C15_LoopControlFlow ==
  [][ /\ C15_Open(vm, vm') /\ C15_Close(vm, vm')
      /\ C15_Open(ref, ref') /\ C15_Close(ref, ref') ]_vars

\* A run that has skipped one loop at its LoopOpen, entered another, gone
\* back once from its LoopClose and then fallen through it.
C15_Witness ==
  /\ vm.status = "halted"
  /\ vm.ops = << LoopOpen(2), PrintOp, LoopClose(0), Mod(2), LoopOpen(9),
                 Move(1), Mod(1), Move(-1), Mod(-1), LoopClose(4), Move(1),
                 PrintOp, EndOp >>
  /\ vm.output = <<2>>
  /\ vm.memory[0] = 0

\* The index of the ']' that closes the loop opened at a of t, when the body
\* of that loop is not empty and has only characters of the set; 0 otherwise.
BodyEnd(t, a, set) ==
  LET ends == { b \in (a + 2)..Len(t) :
                  t[b] = "]" /\ \A c \in (a + 1)..(b - 1) : t[c] \in set }
  IN IF t[a] = "[" /\ ends # {} THEN CHOOSE b \in ends : TRUE ELSE 0

\* The number of characters up less the number of characters down in t[a+1..b-1].
Net(t, a, b, up, down) ==
  Cardinality({c \in (a + 1)..(b - 1) : t[c] = up})
    - Cardinality({c \in (a + 1)..(b - 1) : t[c] = down})

\* What the loop opened at a of t is to compile to if it is one of the two
\* idioms: SearchZeroCell(n) for a body of '<' and '>' with net n, and SetCell
\* for a body of '+' and '-' that sums to -1 (the SetCell(0) of the rewrite,
\* with the '+' or '-' that follows the loop folded into it); None if not.
IdiomAt(t, a) ==
  LET bm == BodyEnd(t, a, {"<", ">"})
      bs == BodyEnd(t, a, {"+", "-"})
  IN IF bm # 0 THEN SearchZeroCell(Net(t, a, bm, ">", "<"))
     ELSE IF bs # 0 /\ Wrap8(Net(t, a, bs, "+", "-")) = -1
       THEN SetCell(IF bs < Len(t) /\ t[bs + 1] = "+" THEN 1
                    ELSE IF bs < Len(t) /\ t[bs + 1] = "-" THEN -1 ELSE 0)
     ELSE None

IsIdiomOp(o) == o.op \in {"SetCell", "SearchZeroCell"}

IsLoopOpen(o) == o.op = "LoopOpen"

\* The operations ops compiled from the source src have one SearchZeroCell or
\* SetCell for each idiom loop of the source, in the order of the loops and
\* with their payloads, a LoopOpen for every other '[' and for no idiom loop,
\* and nowhere a loop left around a single Move or around Mod(-1).
C16_Idioms(src, ops) ==
  LET t == Strip(src)
      expected == SelectSeq([a \in 1..Len(t) |-> IdiomAt(t, a)], IsSome)
  IN /\ SelectSeq(ops, IsIdiomOp) = expected
     /\ Len(SelectSeq(ops, IsLoopOpen)) + Len(expected) = Count(t, "[", Len(t))
     /\ \A i \in 0..(Len(ops) - 3) :
          ~ ( /\ At(ops, i).op = "LoopOpen"
              /\ At(ops, i + 1).op = "Move" \/ At(ops, i + 1) = Mod(-1)
              /\ At(ops, i + 2).op = "LoopClose" )

\* C16 (idiom rewrites compose with merging): in every sequence compile
\* returns, each loop whose body is only '<' and '>' with net displacement n
\* (zero too) is the one operation SearchZeroCell(n), each loop whose body is
\* only '+' and '-' with merged delta -1 is one SetCell, neither has a
\* LoopOpen or LoopClose left, and no LoopOpen, Move(n), LoopClose or LoopOpen,
\* Mod(-1), LoopClose stand as three consecutive operations.
C16_IdiomRewrites ==
  [][ (pc = "start" /\ result'.kind = "Ok") => C16_Idioms(source, result'.ops) ]_vars

\* A returned sequence with the SetCell of a loop whose body merges to -1 and
\* the SearchZeroCell of a loop whose body merges to one step.
C16_Witness ==
  /\ Returned
  /\ source = <<"+", "[", "-", "+", "-", "]", "[", ">", ">", "<", "]", ".">>
  /\ result.ops = <<Mod(1), SetCell(0), SearchZeroCell(1), PrintOp, EndOp>>

\* The numbers k >= 1 of steps from the data pointer of m that lead to a cell
\* of the tape holding zero.
ZeroAfter(m, step) ==
  { k \in 1..TapeLen :
      (m.pos + k * step) \in Tape /\ m.memory[m.pos + k * step] = 0 }

\* What SearchZeroCell(step) makes of m, whose data pointer is on the tape.
C17_Expected(m, step, m2) ==
  IF m.memory[m.pos] = 0 THEN m2 = [m EXCEPT !.ip = @ + 1]
  ELSE IF step = 0 THEN m2 = m
  ELSE IF ZeroAfter(m, step) # {}
    THEN LET k == CHOOSE k \in ZeroAfter(m, step) :
                    \A l \in ZeroAfter(m, step) : k <= l
         IN m2 = [m EXCEPT !.pos = m.pos + k * step, !.ip = @ + 1]
  ELSE /\ m2.status = "panicked"
       /\ m2.pos \notin Tape
       /\ m2.memory = m.memory
       /\ m2.output = m.output

\* C17 (SearchZeroCell): with the current cell zero, SearchZeroCell(step)
\* leaves data pointer and tape as they are and goes on to the next operation;
\* with it not zero it stops at the first pos + k*step, k >= 1, whose cell is
\* zero and goes on, no cell changed; with step 0 and the cell not zero the
\* state of execute never changes again. (Where the scan leaves the tape
\* before a zero cell, it is the panic of C12.)
C17_SearchZeroCell ==
  [][ ( /\ pc = "exec"
        /\ vm.status = "running"
        /\ Current(vm) = "SearchZeroCell"
        /\ vm.pos \in Tape ) =>
          /\ C17_Expected(vm, At(vm.ops, vm.ip).v, vm')
          /\ vm'.status = "running" => pc' = "exec" ]_vars

\* A scan that started on a nonzero cell, passed another and has stopped on
\* the zero cell two steps on.
C17_Witness ==
  /\ vm.status = "halted"
  /\ vm.ops = <<Mod(1), Move(1), Mod(1), Move(-1), SearchZeroCell(1), EndOp>>
  /\ vm.pos = 2
  /\ vm.memory[0] = 1 /\ vm.memory[1] = 1 /\ vm.memory[2] = 0

\* execute runs the sequence compile returned, its instruction pointer is an
\* index of it, and it has left through End only where End is.
C18_IpValid ==
  Returned =>
    /\ vm.ops = result.ops
    /\ vm.ip \in Indices(vm.ops)
    /\ vm.status = "halted" => Current(vm) = "End"

\* execute starts at the first operation, on the first cell of a tape of zeros,
\* with nothing written.
C18_Start ==
  (pc = "start" /\ pc' = "exec") =>
    /\ vm'.status = "running"
    /\ vm'.ip = 0
    /\ vm'.pos = 0
    /\ \A p \in Tape : vm'.memory[p] = 0
    /\ vm'.output = <<>>

\* The step of execute at End is the normal return, with nothing else changed
\* and main going on; a step at any other operation is not a return.
C18_HaltsAtEnd ==
  (pc = "exec" /\ vm.status = "running") =>
    IF Current(vm) = "End"
      THEN vm' = [vm EXCEPT !.status = "halted"] /\ pc' = "returned"
      ELSE vm'.status # "halted" /\ pc' # "returned"

\* After the return nothing is dispatched and nothing written.
C18_Halted == vm.status = "halted" => vm' = vm

\* C18 (instruction pointer and halting): on every sequence compile returns,
\* execute starts with ip = 0, data pointer 0 and a tape of zeros, its
\* instruction pointer is an index of the sequence in every state, it returns
\* exactly at End, and after that nothing is dispatched or written.
C18_IpSafetyAndHalting ==
  /\ [] C18_IpValid
  /\ [][C18_Start /\ C18_HaltsAtEnd /\ C18_Halted]_vars

\* execute has returned at the End that is the last operation, after going
\* round a loop and writing.
C18_Witness ==
  /\ Returned
  /\ vm.status = "halted"
  /\ vm.ip = Len(vm.ops) - 1
  /\ Len(vm.output) > 0
  /\ \E i \in Indices(vm.ops) : At(vm.ops, i).op = "LoopClose"
  /\ \E p \in Tape : vm.memory[p] # 0

\* The last index of the maximal run of '<' and '>' that starts at a of t.
RunEnd(t, a) ==
  CHOOSE e \in a..Len(t) :
    /\ \A c \in a..e : t[c] \in {"<", ">"}
    /\ e = Len(t) \/ t[e + 1] \notin {"<", ">"}

\* The Move that the maximal run of '<' and '>' starting at a of t is to
\* compile to; None where no such run starts, or where the run is the whole
\* body of a loop.
MoveAt(t, a) ==
  IF t[a] \notin {"<", ">"} \/ (a > 1 /\ t[a - 1] \in {"<", ">"}) THEN None
  ELSE LET e == RunEnd(t, a)
       IN IF a > 1 /\ t[a - 1] = "[" /\ e < Len(t) /\ t[e + 1] = "]" THEN None
          ELSE Move(Net(t, a - 1, e + 1, ">", "<"))

IsMove(o) == o.op = "Move"

\* The operations ops compiled from the source src have no two Moves and no
\* two Mods side by side, no SetCell(0) with a Mod after it, and one Move for
\* each maximal run of '<' and '>' among the commands of the source that is
\* not a whole loop body, in order, carrying the run's '>' less its '<'.
C19_Merged(src, ops) ==
  LET t == Strip(src)
  IN /\ \A i \in 0..(Len(ops) - 2) :
          /\ ~ (At(ops, i).op = "Move" /\ At(ops, i + 1).op = "Move")
          /\ ~ (At(ops, i).op = "Mod" /\ At(ops, i + 1).op = "Mod")
          /\ ~ (At(ops, i) = SetCell(0) /\ At(ops, i + 1).op = "Mod")
     /\ SelectSeq(ops, IsMove) = SelectSeq([a \in 1..Len(t) |-> MoveAt(t, a)], IsSome)

\* C19 (merging is complete): no sequence compile returns has two adjacent
\* Moves, two adjacent Mods, or SetCell(0) directly before a Mod, and every
\* maximal run of '<' and '>' that is not a whole loop body is exactly one
\* Move carrying the number of '>' less the number of '<'.
C19_MergingComplete ==
  [][ (pc = "start" /\ result'.kind = "Ok") => C19_Merged(source, result'.ops) ]_vars

\* A run of '>' and '<' with a comment character inside it has compiled to
\* one Move of the net step.
C19_Witness ==
  /\ Returned
  /\ source = <<">", "x", "<", ">">>
  /\ result.ops = <<Move(1), EndOp>>

\* The cell value c of -128..127 as the byte 0..255 with the same bits.
Byte(c) == IF c < 0 THEN c + 256 ELSE c

\* What an iteration of execute m to m2 may change, by the operation at ip:
\* a cell only if it is the current one and the operation Mod, SetCell or
\* Read; the data pointer only if the operation is Move or SearchZeroCell; the
\* output only if it is Print, and then by the one character that is the
\* current cell as a byte, which a Print on the tape always appends.
C20_Frame(m, m2) ==
  m.status = "running" =>
    /\ \A p \in Tape :
         m2.memory[p] # m.memory[p] =>
           (p = m.pos /\ Current(m) \in {"Mod", "SetCell", "Read"})
    /\ m2.pos # m.pos => Current(m) \in {"Move", "SearchZeroCell"}
    /\ m2.output # m.output =>
         /\ Current(m) = "Print"
         /\ m.pos \in Tape
         /\ m2.output = Append(m.output, Byte(m.memory[m.pos]))
         /\ Byte(m.memory[m.pos]) \in 0..255
    /\ (m2 # m /\ Current(m) = "Print" /\ m.pos \in Tape) =>
         Len(m2.output) = Len(m.output) + 1

\* C20 (frame of the steps): an operation changes at most the current cell,
\* and only if it is Mod, SetCell or Read; Move and SearchZeroCell change only
\* the data pointer; Print, LoopOpen, LoopClose and End change neither; only
\* Print adds to the output, and what it adds is one character, the current
\* cell as an unsigned byte.
C20_StepFrame == [][C20_Frame(vm, vm') /\ C20_Frame(ref, ref')]_vars

\* A cell holding a negative number has been written, as a byte above 127.
C20_Witness ==
  /\ vm.status = "halted"
  /\ vm.pos \in Tape
  /\ vm.memory[vm.pos] < 0
  /\ Len(vm.output) > 0
  /\ vm.output[Len(vm.output)] = vm.memory[vm.pos] + 256

====
